---- MODULE Spec2Model ----
(***************************************************************************)
(* One run of one analysis script of the price-monitoring repository.      *)
(*                                                                         *)
(* Every script is the same linear pipeline: check the command line, check *)
(* that work_dir/data.json exists, load it into the global `data`, query   *)
(* the database, build a DataFrame, and render per product group (an image *)
(* per group, a CSV export, or regression results merged back into         *)
(* data.json).  The model follows main() of each script statement by       *)
(* statement; `pc` is the position in main().                              *)
(*                                                                         *)
(* Numbers.  A database cell is NULL or an integer.  A float is a record   *)
(* [k, v]: k is "fin" (v is the value in millionths), "nan", "pinf",       *)
(* "ninf", or "none" (Python None / JSON null).  Logarithms are taken to   *)
(* base 2 on powers of two: slope, R^2, standard error and p-value of a    *)
(* log-log fit do not depend on the base of the logarithm.                 *)
(***************************************************************************)
EXTENDS Integers, Sequences, FiniteSets, TLC

\* ------------------------------------------------------------------ bounds
MaxRows == 2
MaxRegRows == 3
MaxProducts == 2
MaxIdLen == 4

\* ----------------------------------------------------------------- scripts
PlotCenovyOdstupB == "plot_cenovy_odstup_b"
ScatterplotNpIb == "scatterplot_nP_iB"
Souladnost == "souladnost_cenovych_odstupu"
ExportToCsv == "export_to_csv"
Histogram == "histogram"
PlotBrandIndex == "plot_brand_index_sladeni"
RegressionIpNp == "regression_iP_Np"
SumScript == "sum"
ScatterplotSladenost == "scatterplot_sladenost_cenovy_odstup_b"

Scripts ==
  { PlotCenovyOdstupB, ScatterplotNpIb, Souladnost, ExportToCsv, Histogram,
    PlotBrandIndex, RegressionIpNp, SumScript, ScatterplotSladenost }

\* Scripts that import get_connection and query the database.
DbScripts == Scripts \ {SumScript}

\* Scripts whose fetch_dataframe builds the parameter tuple with
\* build_sql_and_params() before the connection is opened.
BuildParamScripts ==
  { PlotCenovyOdstupB, ScatterplotNpIb, Souladnost, PlotBrandIndex,
    RegressionIpNp, ScatterplotSladenost }

\* Scripts whose loop is plot_for_each_product / save_histograms.
PerProductChartScripts ==
  { PlotCenovyOdstupB, ScatterplotNpIb, Souladnost, Histogram, ScatterplotSladenost }

\* Scripts that fit sm.OLS per product group.
OlsScripts == { RegressionIpNp, ScatterplotNpIb, Souladnost }

\* --------------------------------------------------------------- optionals
\* An optional value is the empty set (absent) or a singleton.
Absent == {}
Some(v) == {v}
Has(o) == o # {}
The(o) == CHOOSE v \in o : TRUE

\* ------------------------------------------------------------------ floats
NULL == -1000
NaN == [k |-> "nan", v |-> 0]
PInf == [k |-> "pinf", v |-> 0]
NInf == [k |-> "ninf", v |-> 0]
None == [k |-> "none", v |-> 0]
Fin(v) == [k |-> "fin", v |-> v]
IsFinite(f) == f.k = "fin"

Million == 1000 * 1000

\* A cell of a fetched row: None for SQL NULL, else the number.
Cell(c) == IF c = NULL THEN None ELSE Fin(c * Million)

\* pd.to_numeric(column, errors="coerce") on one cell: None becomes NaN.
ToNumeric(c) == IF c.k = "none" THEN NaN ELSE c

\* pd.notna on one value.
NotNa(f) == f.k # "none" /\ f.k # "nan"

Abs(i) == IF i < 0 THEN -i ELSE i

\* Integer division rounding to the nearest, ties to even (d > 0).
RoundDiv(a, d) ==
  LET q == a \div d
      r == a % d
  IN  IF 2 * r < d THEN q
      ELSE IF 2 * r > d THEN q + 1
      ELSE IF q % 2 = 0 THEN q ELSE q + 1

\* round(xf, 4) on a value held in millionths.
Round4(v) == RoundDiv(v, 100) * 100

\* n(x) of linear_regression: None for None, NaN and +-Infinity, else the
\* value rounded to 4 decimal places.
SanitizeNKeepsNaN(x) ==
  IF x.k = "none" THEN None
  ELSE IF x.k = "pinf" \/ x.k = "ninf" THEN None
  ELSE IF x.k = "nan" THEN x
  ELSE Fin(Round4(x.v))

SanitizeNNoRound(x) ==
  IF x.k = "none" THEN None
  ELSE IF x.k = "nan" \/ x.k = "pinf" \/ x.k = "ninf" THEN None
  ELSE x

SanitizeN(x) ==
  IF x.k = "none" THEN None
  ELSE IF x.k = "nan" \/ x.k = "pinf" \/ x.k = "ninf" THEN None
  ELSE Fin(Round4(x.v))

\* np.log on one float, base 2, defined on the powers of two the model uses.
Log2Table(i) ==
  CASE i = 1 -> 0
    [] i = 2 -> 1
    [] i = 4 -> 2
    [] i = 8 -> 3

NpLog(f) ==
  IF f.k # "fin" THEN (IF f.k = "pinf" THEN PInf ELSE NaN)
  ELSE IF f.v < 0 THEN NaN
  ELSE IF f.v = 0 THEN NInf
  ELSE Fin(Log2Table(f.v \div Million) * Million)

\* --------------------------------------------------------------- documents
\* data.json: a JSON object, modelled as a function from its top-level keys
\* to optional values.  "note" stands for any key no script reads.
Keys == {"basketId", "dateFrom", "dateTo", "histBins", "products", "a", "b",
         "a_plus_b", "note"}

EmptyDoc == [k \in Keys |-> Absent]

ValidDoc ==
  [EmptyDoc EXCEPT !["basketId"] = Some(1),
                   !["dateFrom"] = Some("2024-01-01"),
                   !["dateTo"] = Some("2024-01-31"),
                   !["note"] = Some("kept")]

\* A reg1 object some earlier run left in a product.
OldReg1 ==
  [id |-> 0, beta_Np |-> Fin(500000), beta_SE |-> None, p_value |-> None,
   R_squared |-> None, N |-> 9]

\* One entry of the products list: an object with (normally) an id, other
\* fields of its own ("label"), and possibly a reg1 object.
ProductEntries ==
  [id : {Some(1), Some(2)}, label : {"p"}, reg1 : {Absent, Some(OldReg1)}]
    \cup {[id |-> Absent, label |-> "noid", reg1 |-> Absent]}

SeqsUpTo(S, n) == UNION {[1..m -> S] : m \in 0..n}

ProductLists == SeqsUpTo(ProductEntries, MaxProducts)

\* --------------------------------------------------------------- database
\* One row of the join the script's SELECT reads (bp, price_stat_i1 / price /
\* b_desc, product).  A cell is NULL or an integer.  iB is the column the
\* regression scripts select as sqrt((on_par^2 + (min/mode)^2)/2): the model
\* takes the value the database computed.  Rows are in the order of the
\* query's ORDER BY: by product_id, then by date.
Row(pid, mn, md, av, op, sc, ib, pr) ==
  [product_id |-> pid, min_price |-> mn, mode_price |-> md, avg_price |-> av,
   on_par |-> op, seller_count |-> sc, iB |-> ib, price |-> pr]

Pids == {1, 2}

RowDomain(s) ==
  CASE s = PlotCenovyOdstupB ->
         {Row(p, mn, md, NULL, NULL, NULL, NULL, NULL) :
            p \in Pids, mn \in {NULL, 1, 2}, md \in {NULL, 0, 2}}
    [] s = Souladnost ->
         {Row(x[1], x[2], x[3], x[4], NULL, NULL, NULL, NULL) :
            x \in Pids \X {NULL, 1, 2} \X {0, 2} \X {NULL, 2}}
    [] s = ScatterplotSladenost ->
         {Row(p, mn, md, NULL, 1, NULL, NULL, NULL) :
            p \in Pids, mn \in {NULL, 1}, md \in {NULL, 0, 2}}
    [] s = ScatterplotNpIb ->
         {Row(p, NULL, NULL, NULL, NULL, sc, ib, NULL) :
            p \in Pids, sc \in {NULL, 0, 1, 2}, ib \in {NULL, 1}}
    [] s = RegressionIpNp ->
         {Row(p, NULL, NULL, NULL, NULL, sc, 1, NULL) : p \in Pids, sc \in {1, 2}}
    [] s = Histogram ->
         {Row(p, NULL, NULL, NULL, NULL, NULL, NULL, pr) :
            p \in Pids, pr \in {NULL, 1, 2}}
    [] s = PlotBrandIndex ->
         {Row(p, NULL, NULL, NULL, NULL, NULL, ib, NULL) :
            p \in Pids, ib \in {NULL, 1}}
    [] s = ExportToCsv ->
         {Row(p, NULL, NULL, NULL, NULL, NULL, NULL, pr) : p \in Pids, pr \in {1, 2}}
    [] OTHER -> {}

\* The rows of one product of the regression query, with the cells that make
\* np.log and the fit degenerate: NULL and 0 seller counts, 0 index.
RegRowDomain ==
  {Row(1, NULL, NULL, NULL, NULL, sc, ib, NULL) :
     sc \in {NULL, 0, 1, 2}, ib \in {0, 1, 2}}

Sorted(rs) == \A i \in 1..(Len(rs) - 1) : rs[i].product_id <= rs[i + 1].product_id

RowsOf(D, n) == {rs \in SeqsUpTo(D, n) : Sorted(rs)}

\* A fixed two-row answer for the runs that vary the command line, the
\* configuration and the failures of the connection.
SampleRows(s) ==
  << Row(1, 1, 2, 2, 1, 1, 1, 1), Row(1, 2, 2, 2, 1, 2, 2, 2) >>

\* Where the connector fails, if it does.
Faults == {"none", "connect", "cursor", "execute", "fetch"}

\* ------------------------------------------------------------------- paths
\* A directory is [root, dir]: root is "work_dir" (joined to sys.argv[1]) or
\* "cwd" (a relative path, resolved against the process's current directory).
Dir(root, d) == [root |-> root, dir |-> d]

\* OUTPUT_DIR as the module's top level leaves it, before main() runs.
ModuleLevelOutputDir(s) ==
  IF s = ScatterplotSladenost
    THEN Some(Dir("cwd", "img/scatterplot_sladenost_cenovy_odstup_b"))
    ELSE Absent

\* output_dir / OUTPUT_DIR as main() assigns it after load_data_json.
MainOutputDirUnassigned(s) == ModuleLevelOutputDir(s)

MainOutputDir(s) ==
  CASE s = PlotCenovyOdstupB -> Some(Dir("work_dir", "img/cenovy_odstup_b"))
    [] s = ScatterplotNpIb -> Some(Dir("work_dir", "img/scatterplot_iP_Np"))
    [] s = Souladnost -> Some(Dir("work_dir", "img/souladnost_cenovych_odstupu"))
    [] s = Histogram -> Some(Dir("work_dir", "img/histogram"))
    [] s = PlotBrandIndex -> Some(Dir("work_dir", "img"))
    [] OTHER -> ModuleLevelOutputDir(s)

\* Strings that are edited character by character are sequences of
\* one-character strings.
Digit(i) ==
  CASE i = 0 -> "0" [] i = 1 -> "1" [] i = 2 -> "2" [] i = 3 -> "3" [] i = 4 -> "4"
    [] i = 5 -> "5" [] i = 6 -> "6" [] i = 7 -> "7" [] i = 8 -> "8" [] i = 9 -> "9"

RECURSIVE Str(_)
Str(i) == IF i < 10 THEN << Digit(i) >> ELSE Str(i \div 10) \o << Digit(i % 10) >>

UnsafeChars == {"\\", "/", ":", "*", "?", "\"", "<", ">", "|"}
Whitespace == {" ", "\t", "\n"}

\* re.sub("[S]+", " ", s): every maximal run of characters of S becomes one space.
RECURSIVE SubRuns(_, _)
SubRuns(s, S) ==
  IF s = << >> THEN << >>
  ELSE IF Head(s) \in S
    THEN IF Len(s) > 1 /\ s[2] \in S
           THEN SubRuns(Tail(s), S)
           ELSE << " " >> \o SubRuns(Tail(s), S)
    ELSE << Head(s) >> \o SubRuns(Tail(s), S)

\* str.strip()
RECURSIVE Strip(_)
Strip(s) ==
  IF s = << >> THEN s
  ELSE IF Head(s) \in Whitespace THEN Strip(Tail(s))
  ELSE IF s[Len(s)] \in Whitespace THEN Strip(SubSeq(s, 1, Len(s) - 1))
  ELSE s

SanitizeNoStrip(s) == SubRuns(SubRuns(s, UnsafeChars), Whitespace)

sanitize_filename(s) == Strip(SubRuns(SubRuns(s, UnsafeChars), Whitespace))

PngName(pid) == sanitize_filename(Str(pid)) \o << ".png" >>

File(d, name, content) ==
  [root |-> d.root, dir |-> d.dir, name |-> name, content |-> content]

SamePath(f, g) == f.root = g.root /\ f.dir = g.dir /\ f.name = g.name

\* Opening a path for writing replaces what was there.
WriteFile(fs, f) == {g \in fs : ~SamePath(g, f)} \cup {f}

\* --------------------------------------------------------------- SQL layer
\* COALESCE(p2.name, b.product_id) over the LEFT JOIN on product.id: product
\* 1 has a name, one character longer than a caption keeps, product 2 has
\* none.
max_length == 35

ProductName(pid) ==
  IF pid = 1
    THEN [i \in 1..(max_length + 1) |-> IF i = 1 THEN "A" ELSE "a"]
    ELSE Str(pid)

\* a / b in a SELECT list: MySQL yields NULL when an operand is NULL or the
\* divisor is 0.
SqlDiv(a, b) ==
  IF a = NULL \/ b = NULL \/ b = 0 THEN None ELSE Fin(RoundDiv(a * Million, b))

\* The dictionary cur.fetchall() returns for one row of the script's SELECT.
Select(s, r) ==
  CASE s = PlotCenovyOdstupB ->
         [product_id |-> r.product_id, product_name |-> ProductName(r.product_id),
          dB |-> SqlDiv(r.min_price, r.mode_price)]
    [] s = Souladnost ->
         [product_id |-> r.product_id, product_name |-> ProductName(r.product_id),
          dB |-> SqlDiv(r.min_price, r.mode_price),
          dA |-> SqlDiv(r.min_price, r.avg_price)]
    [] s = ScatterplotSladenost ->
         [product_id |-> r.product_id, product_name |-> ProductName(r.product_id),
          on_par |-> Cell(r.on_par), min_price |-> Cell(r.min_price),
          mode_price |-> Cell(r.mode_price)]
    [] s \in {ScatterplotNpIb, RegressionIpNp} ->
         [product_id |-> r.product_id, product_name |-> ProductName(r.product_id),
          iB |-> Cell(r.iB), seller_count |-> Cell(r.seller_count)]
    [] s = Histogram ->
         [product_id |-> r.product_id, product_name |-> ProductName(r.product_id),
          price |-> Cell(r.price)]
    [] s = PlotBrandIndex ->
         [product_id |-> r.product_id, iB |-> Cell(r.iB)]
    [] s = ExportToCsv ->
         [product_id |-> r.product_id, price |-> Cell(r.price)]

QueryResult(s, table) == [i \in 1..Len(table) |-> Select(s, table[i])]

\* Float division of two numeric cells; the divisor is a whole number.
FloatDiv(a, b) == Fin(RoundDiv(a.v, b.v \div Million))

\* The lambda of scatterplot_sladenost's fetch_dataframe: min/mode when both
\* are present and mode is not 0, else None.
MinModeRatioZeroDefault(mn, md) ==
  IF NotNa(mn) /\ NotNa(md) /\ md.v # 0 THEN FloatDiv(mn, md) ELSE Fin(0)

MinModeRatio(mn, md) ==
  IF NotNa(mn) /\ NotNa(md) /\ md.v # 0 THEN FloatDiv(mn, md) ELSE None

\* round2 of histogram.py: round(float(x), 2); NaN stays NaN.
round2(x) == IF x.k = "fin" THEN Fin(RoundDiv(x.v, 10000) * 10000) ELSE x

\* The typed DataFrame row fetch_dataframe builds from one fetched row.
Typed(s, r) ==
  CASE s = PlotCenovyOdstupB -> [r EXCEPT !.dB = ToNumeric(r.dB)]
    [] s = Souladnost -> [r EXCEPT !.dB = ToNumeric(r.dB), !.dA = ToNumeric(r.dA)]
    [] s = ScatterplotSladenost ->
         [product_id |-> r.product_id, product_name |-> r.product_name,
          on_par |-> ToNumeric(r.on_par), min_price |-> ToNumeric(r.min_price),
          mode_price |-> ToNumeric(r.mode_price),
          min_mode_ratio |-> MinModeRatio(ToNumeric(r.min_price), ToNumeric(r.mode_price))]
    [] s \in {ScatterplotNpIb, RegressionIpNp} ->
         [r EXCEPT !.iB = ToNumeric(r.iB), !.seller_count = ToNumeric(r.seller_count)]
    [] s = Histogram -> [r EXCEPT !.price = round2(ToNumeric(r.price))]
    [] s = PlotBrandIndex -> [r EXCEPT !.iB = ToNumeric(r.iB)]
    [] OTHER -> r

DataFrame(s, rs) == [i \in 1..Len(rs) |-> Typed(s, rs[i])]

\* ------------------------------------------------------------------ inputs
\* The configurations that drop one of the keys the queries read.
KeyVariantDocs ==
  {ValidDoc} \cup {[ValidDoc EXCEPT ![k] = Absent] : k \in {"basketId", "dateFrom", "dateTo"}}

Input(n, j, f, d) == [argc |-> n, json |-> j, fault |-> f, db |-> d]

\* Command line, configuration file and connector failures, for every script.
PipelineInputs(s) ==
  {Input(n, j, f, d) :
     n \in 0..2, j \in {Absent} \cup {Some(doc) : doc \in KeyVariantDocs},
     f \in Faults, d \in {<< >>, SampleRows(s)}}

\* Query results, for every script that queries.
DataInputs(s) ==
  {Input(1, Some(ValidDoc), "none", d) : d \in RowsOf(RowDomain(s), MaxRows)}

\* regression_iP_Np: products lists against results for two products.
RegDocInputs ==
  {Input(1, Some([ValidDoc EXCEPT !["products"] = pl]), "none", d) :
     pl \in {Absent} \cup {Some(l) : l \in ProductLists},
     d \in RowsOf(RowDomain(RegressionIpNp), MaxRegRows)}

\* regression_iP_Np: the fit of one product over degenerate and regular rows.
RegFitInputs ==
  {Input(1, Some([ValidDoc EXCEPT !["products"] =
                    Some(<< [id |-> Some(1), label |-> "p", reg1 |-> Absent] >>)]),
         "none", d) :
     d \in RowsOf(RegRowDomain, MaxRegRows)}

\* sum.py: a and b present or not.
SumInputs ==
  {Input(1, Some([EmptyDoc EXCEPT !["a"] = a, !["b"] = b]), "none", << >>) :
     a \in {Absent, Some(1)}, b \in {Absent, Some(2)}}

InputsFor(s) ==
  PipelineInputs(s)
    \cup (IF s \in DbScripts THEN DataInputs(s) ELSE {})
    \cup (IF s = RegressionIpNp THEN RegDocInputs \cup RegFitInputs ELSE {})
    \cup (IF s = SumScript THEN SumInputs ELSE {})

\* ------------------------------------------------------------------- state
VARIABLES
  script,      \* the script that runs
  argc,        \* number of command-line arguments after the script name
  json0,       \* work_dir/data.json as the run finds it: Absent or Some(document)
  jsonFile,    \* work_dir/data.json on disk now
  db,          \* the rows the script's query selects
  fault,       \* where the connector raises, if it does
  pc,          \* position in main()
  data,        \* the global `data`
  outputDir,   \* the global OUTPUT_DIR / local output_dir: Absent until assigned
  conn,        \* the connection: "none", "open", "closed"
  cur,         \* the cursor: "none", "open", "closed"
  nConnect,    \* calls of get_connection() that returned
  nExecute,    \* calls of cur.execute() that returned
  nJsonReads,  \* times data.json was opened for reading
  rows,        \* what cur.fetchall() returned
  df,          \* the DataFrame
  gi,          \* index of the next product group of the loop
  fitted,      \* product ids whose group sm.OLS(...).fit() was called on
  results,     \* linear_regression's result list
  files,       \* files written: records [root, dir, name, content]
  dirs,        \* directories created: records [root, dir]
  printed,     \* messages printed
  exc,         \* the exception that is propagating, "none" if none
  exitCode,    \* the process's exit status, -1 while it runs
  ident,       \* a product identifier as a string, for the file-name functions
  fname,       \* the file name rendered from ident: Absent or Some(name)
  run,         \* 1 for the first run on the work_dir, 2 for a rerun
  first,       \* what the first run left and how it went, once it is rerun
  oth,         \* a second process on the same work_dir: a run of sum.py
  query        \* the arguments built for cur.execute: Absent or Some([sql, params])

vars ==
  << script, argc, json0, jsonFile, db, fault, pc, data, outputDir, conn, cur, nConnect,
     nExecute, nJsonReads, rows, df, gi, fitted, results, files, dirs, printed,
     exc, exitCode, ident, fname, run, first, oth, query >>

Running == -1

\* The state of a process that has just started.
ProcessStart ==
  /\ pc = "start"
  /\ data = EmptyDoc
  /\ outputDir = ModuleLevelOutputDir(script)
  /\ conn = "none"
  /\ cur = "none"
  /\ nConnect = 0
  /\ nExecute = 0
  /\ nJsonReads = 0
  /\ rows = << >>
  /\ df = << >>
  /\ gi = 1
  /\ fitted = {}
  /\ results = << >>
  /\ printed = << >>
  /\ exc = "none"
  /\ exitCode = Running

\* What is outside one run of a script is at rest.
NoFirst ==
  [files |-> {}, dirs |-> {}, json |-> Absent, exitCode |-> Running,
   exc |-> "none", gi |-> 0, results |-> << >>]

\* The second process: where it is ("off" when there is none), the document
\* it holds, and what the first process had done to data.json when the
\* second read it and when it wrote it.
Other(at) ==
  [pc |-> at, data |-> EmptyDoc, mainWroteAtRead |-> FALSE,
   mainReadAtWrite |-> FALSE, mainWroteAtWrite |-> FALSE, fileAtWrite |-> Absent]

SideIdle ==
  /\ ident = << >> /\ fname = Absent
  /\ run = 1 /\ first = NoFirst
  /\ oth = Other("off")
  /\ query = Absent

\* A first run of script s on one of the inputs of a set.
StartOn(s, inputs) ==
  /\ script = s
  /\ \E inp \in inputs :
       /\ argc = inp.argc
       /\ json0 = inp.json
       /\ jsonFile = inp.json
       /\ db = inp.db
       /\ fault = inp.fault
  /\ ProcessStart
  /\ files = {}
  /\ dirs = {}

Init ==
  /\ \E s \in Scripts : StartOn(s, InputsFor(s))
  /\ SideIdle

\* ---------------------------------------------------------------- main()
inputVars == << script, argc, json0, db, fault >>
sideVars == << ident, fname, run, first, oth, query >>

runVars ==
  << script, argc, json0, jsonFile, db, fault, pc, data, outputDir, conn, cur,
     nConnect, nExecute, nJsonReads, rows, df, gi, fitted, results, files, dirs,
     printed, exc, exitCode >>
connVars == << conn, cur, nConnect, nExecute >>
loopVars == << gi, fitted, results >>
outVars == << files, dirs >>

\* sys.exit(code), or main() returning (code 0).
Exit(code) == pc' = "done" /\ exitCode' = code

\* An exception nothing catches: the interpreter prints the traceback and the
\* process ends with status 1.
Uncaught(e) == exc' = e /\ pc' = "done" /\ exitCode' = 1

\* if len(sys.argv) != 2: print(...); sys.exit(1)
BadArgCountOnlyMissing == argc < 1

BadArgCount == argc # 1

ArgMessage == "Chybi parametr <work_dir>"

\* sum.py prints "start" before it looks at sys.argv.
Banner(s) == IF s = SumScript THEN << "start" >> ELSE << >>

CheckArgs ==
  /\ pc = "start"
  /\ IF BadArgCount
       THEN /\ printed' = Append(Banner(script), ArgMessage)
            /\ Exit(1)
       ELSE /\ printed' = Banner(script)
            /\ pc' = "args_ok"
            /\ exitCode' = exitCode
  /\ UNCHANGED << inputVars, sideVars, connVars, loopVars, outVars, jsonFile, data,
                  outputDir, nJsonReads, rows, df, exc >>

\* if not os.path.exists(json_path): print(...); sys.exit(1)
JsonMissingNoCheck == FALSE

JsonMissing == ~Has(jsonFile)

CheckJson ==
  /\ pc = "args_ok"
  /\ IF JsonMissing
       THEN /\ printed' = Append(printed, "data.json neexistuje")
            /\ Exit(1)
       ELSE /\ printed' = printed
            /\ pc' = "json_ok"
            /\ exitCode' = exitCode
  /\ UNCHANGED << inputVars, sideVars, connVars, loopVars, outVars, jsonFile, data,
                  outputDir, nJsonReads, rows, df, exc >>

\* The default values each script hands to load_data_json.
Defaults(s) ==
  IF s = Histogram THEN [EmptyDoc EXCEPT !["histBins"] = Some(30)] ELSE EmptyDoc

\* load_data_json(json_path, default_values): the parsed document merged over
\* the defaults; a key of the file overrides the default.
load_data_json(file, defaults) ==
  [k \in Keys |-> IF Has(file[k]) THEN file[k] ELSE defaults[k]]

\* The statement after main()'s two checks: read the configuration, then
\* assign the output directory.  A file that is not there is read as empty
\* only by a main() that lost its os.path.exists check.
LoadJson ==
  /\ pc = "json_ok"
  /\ data' = load_data_json(IF Has(jsonFile) THEN The(jsonFile) ELSE EmptyDoc,
                            Defaults(script))
  /\ nJsonReads' = nJsonReads + 1
  /\ outputDir' = MainOutputDir(script)
  /\ pc' = "loaded"
  /\ UNCHANGED << inputVars, sideVars, connVars, loopVars, outVars, jsonFile, rows, df,
                  printed, exc, exitCode >>

\* The keys the query's parameter tuple reads with data['...'].
QueryKeys == {"basketId", "dateFrom", "dateTo"}

MissingQueryKey(d) == \E k \in QueryKeys : ~Has(d[k])

\* build_sql_and_params(): runs before get_connection(); data['basketId'],
\* data['dateFrom'], data['dateTo'] raise KeyError when the key is missing.
\* plot_brand_index_sladeni tests `'dateFrom' in data` instead.
BuildSqlAndParams ==
  /\ pc = "loaded"
  /\ script \in BuildParamScripts
  /\ IF script # PlotBrandIndex /\ MissingQueryKey(data)
       THEN Uncaught("KeyError")
       ELSE pc' = "connect" /\ UNCHANGED << exc, exitCode >>
  /\ UNCHANGED << inputVars, sideVars, connVars, loopVars, outVars, jsonFile, data,
                  outputDir, nJsonReads, rows, df, printed >>

\* histogram.py and export_to_csv.py go straight to get_connection().
SkipBuild ==
  /\ pc = "loaded"
  /\ script \in {Histogram, ExportToCsv}
  /\ pc' = "connect"
  /\ UNCHANGED << inputVars, sideVars, connVars, loopVars, outVars, jsonFile, data,
                  outputDir, nJsonReads, rows, df, printed, exc, exitCode >>

\* What an exception does that is raised while the connection is held.
\* export_to_csv.py holds it in try/finally blocks: the cursor (once it
\* exists) and the connection are closed before the exception goes on.  The
\* other scripts have no handler: the exception leaves fetch_dataframe and
\* main() at once.
RaiseHoldingConn(e, haveCursor) ==
  IF script = ExportToCsv
    THEN /\ exc' = e
         /\ pc' = IF haveCursor THEN "close_cur" ELSE "close_conn"
         /\ exitCode' = exitCode
    ELSE Uncaught(e)

\* conn = get_connection()
GetConnectionRetries ==
  /\ pc = "connect"
  /\ IF fault = "connect"
       THEN /\ exc' = "DatabaseError"
            /\ pc' = "connect"
            /\ UNCHANGED << conn, nConnect, exitCode >>
       ELSE /\ conn' = "open"
            /\ nConnect' = nConnect + 1
            /\ pc' = "cursor"
            /\ UNCHANGED << exc, exitCode >>
  /\ UNCHANGED << inputVars, sideVars, cur, nExecute, loopVars, outVars, jsonFile, data,
                  outputDir, nJsonReads, rows, df, printed >>

GetConnection ==
  /\ pc = "connect"
  /\ IF fault = "connect"
       THEN Uncaught("DatabaseError") /\ UNCHANGED << conn, nConnect >>
       ELSE /\ conn' = "open"
            /\ nConnect' = nConnect + 1
            /\ pc' = "cursor"
            /\ UNCHANGED << exc, exitCode >>
  /\ UNCHANGED << inputVars, sideVars, cur, nExecute, loopVars, outVars, jsonFile, data,
                  outputDir, nJsonReads, rows, df, printed >>

\* cur = conn.cursor(dictionary=True)
OpenCursor ==
  /\ pc = "cursor"
  /\ IF fault = "cursor"
       THEN RaiseHoldingConn("DatabaseError", FALSE) /\ cur' = cur
       ELSE cur' = "open" /\ pc' = "execute" /\ UNCHANGED << exc, exitCode >>
  /\ UNCHANGED << inputVars, sideVars, conn, nConnect, nExecute, loopVars, outVars,
                  jsonFile, data, outputDir, nJsonReads, rows, df, printed >>

\* cur.execute(sql, params).  histogram.py and export_to_csv.py build the
\* tuple here, from data['dateFrom'], data['dateTo'], data['basketId'].
Execute ==
  /\ pc = "execute"
  /\ IF script \in {Histogram, ExportToCsv} /\ MissingQueryKey(data)
       THEN RaiseHoldingConn("KeyError", TRUE) /\ nExecute' = nExecute
       ELSE IF fault = "execute"
         THEN RaiseHoldingConn("DatabaseError", TRUE) /\ nExecute' = nExecute
         ELSE /\ nExecute' = nExecute + 1
              /\ pc' = "fetch"
              /\ UNCHANGED << exc, exitCode >>
  /\ UNCHANGED << inputVars, sideVars, conn, cur, nConnect, loopVars, outVars, jsonFile,
                  data, outputDir, nJsonReads, rows, df, printed >>

\* rows = cur.fetchall()
FetchAll ==
  /\ pc = "fetch"
  /\ IF fault = "fetch"
       THEN RaiseHoldingConn("DatabaseError", TRUE) /\ rows' = rows
       ELSE /\ rows' = QueryResult(script, db)
            /\ pc' = IF script = ExportToCsv THEN "csv" ELSE "close_cur"
            /\ UNCHANGED << exc, exitCode >>
  /\ UNCHANGED << inputVars, sideVars, connVars, loopVars, outVars, jsonFile, data,
                  outputDir, nJsonReads, df, printed >>

\* cur.close()
CloseCursor ==
  /\ pc = "close_cur"
  /\ cur' = "closed"
  /\ pc' = "close_conn"
  /\ UNCHANGED << inputVars, sideVars, conn, nConnect, nExecute, loopVars, outVars,
                  jsonFile, data, outputDir, nJsonReads, rows, df, printed, exc,
                  exitCode >>

\* conn.close().  In export_to_csv.py this is the outer finally: main() ends
\* after it, with the pending exception if there is one.
CloseConnection ==
  /\ pc = "close_conn"
  /\ conn' = "closed"
  /\ IF script = ExportToCsv
       THEN Exit(IF exc = "none" THEN 0 ELSE 1)
       ELSE pc' = "frame" /\ exitCode' = exitCode
  /\ UNCHANGED << inputVars, sideVars, cur, nConnect, nExecute, loopVars, outVars,
                  jsonFile, data, outputDir, nJsonReads, rows, df, printed, exc >>

\* The rest of fetch_dataframe: an empty DataFrame for no rows, else the
\* typed (and already ordered) frame.
MakeDataFrame ==
  /\ pc = "frame"
  /\ df' = IF rows = << >> THEN << >> ELSE DataFrame(script, rows)
  /\ pc' = "check_empty"
  /\ UNCHANGED << inputVars, sideVars, connVars, loopVars, outVars, jsonFile, data,
                  outputDir, nJsonReads, rows, printed, exc, exitCode >>

\* Where main() goes with a non-empty frame.
AfterCheckEmpty(s) ==
  CASE s = RegressionIpNp -> "loop"
    [] s = PlotBrandIndex -> "plot_brand"
    [] OTHER -> "makedirs"

\* df.empty
DfEmptyNever(d) == FALSE

DfEmpty(d) == d = << >>

\* if df.empty: print(...); return
CheckEmpty ==
  /\ pc = "check_empty"
  /\ IF DfEmpty(df)
       THEN /\ printed' = Append(printed, "Zadna data")
            /\ Exit(0)
       ELSE /\ printed' = Append(printed, "Nacteno")
            /\ pc' = AfterCheckEmpty(script)
            /\ exitCode' = exitCode
  /\ UNCHANGED << inputVars, sideVars, connVars, loopVars, outVars, jsonFile, data,
                  outputDir, nJsonReads, rows, df, exc >>

\* ------------------------------------------------------- product groups
\* df.groupby(["product_id", "product_name"], dropna=False): the keys in
\* ascending order.  The name is a function of the id (COALESCE over the join
\* on product.id), so a group is the rows of one product id.
RECURSIVE GroupIds(_)
GroupIds(d) ==
  IF d = << >> THEN << >>
  ELSE LET rest == GroupIds(Tail(d))
       IN  IF rest # << >> /\ Head(rest) = Head(d).product_id
             THEN rest
             ELSE << Head(d).product_id >> \o rest

IsPid(r, pid) == r.product_id = pid

\* A grouping that would hand a group the rows of the groups before it too.
GroupRowsUpTo(d, pid) == SelectSeq(d, LAMBDA r : r.product_id <= pid)

GroupRows(d, pid) == SelectSeq(d, LAMBDA r : IsPid(r, pid))

Column(g, c) == [i \in 1..Len(g) |-> g[i][c]]

Range(f) == {f[i] : i \in DOMAIN f}

\* Series.nunique(): the number of distinct values, NaN not counted.
NUnique(col) == Cardinality({v \in Range(col) : NotNa(v)})

\* Series.dropna().empty
AllNa(col) == \A i \in DOMAIN col : ~NotNa(col[i])

AllFinite(col) == \A i \in DOMAIN col : IsFinite(col[i])

\* ------------------------------------------------------------------- OLS
\* sm.add_constant(x) with has_constant='skip': a column that is one
\* repeated non-zero value counts as the constant, and nothing is added.
AddConstantSkips(xs) ==
  /\ AllFinite(xs)
  /\ \A i \in DOMAIN xs : xs[i].v = xs[1].v /\ xs[i].v # 0

\* len(model.params)
ParamsLen(xs) == IF AddConstantSkips(xs) THEN 1 ELSE 2

RECURSIVE SumSeq(_)
SumSeq(q) == IF q = << >> THEN 0 ELSE Head(q) + SumSeq(Tail(q))

Units(col) == [i \in DOMAIN col |-> col[i].v \div Million]
Prod(a, b) == [i \in DOMAIN a |-> a[i] * b[i]]

\* n * sum(a*b) - sum(a) * sum(b): n^2 times the covariance.
Cross(a, b) == Len(a) * SumSeq(Prod(a, b)) - SumSeq(a) * SumSeq(b)

\* Integer square root, by bisection.
RECURSIVE ISqrtIn(_, _, _)
ISqrtIn(q, lo, hi) ==
  IF hi - lo <= 1 THEN lo
  ELSE LET mid == (lo + hi) \div 2
       IN  IF mid * mid <= q THEN ISqrtIn(q, mid, hi) ELSE ISqrtIn(q, lo, mid)

ISqrt(q) == ISqrtIn(q, 0, 46341)

Fit(slope, bse, p, r2) == [slope |-> slope, bse |-> bse, p |-> p, r2 |-> r2]

\* What 1 - ssr/centered_tss evaluates to when the response does not vary:
\* 0/0 in exact arithmetic; in floating point the sums leave a residue, and
\* any of NaN, -inf or a finite number comes out.
R2NoVariation == {NaN, NInf, Fin(0 - 2345678)}

\* A p-value of a regular fit: scipy's Student-t survival function is not
\* computed here; the model takes a value near 0 and one in between.
PValueGrid == {Fin(49), Fin(123456)}

\* sm.OLS(y, X).fit() on the log-log data of one group, X = [1, x]:
\* params[1], bse[1], pvalues[1], rsquared.  The possible results are a set
\* where floating point decides.  When x does not vary the design has rank
\* 1 and pinv gives the minimum-norm solution, slope = c * sum(y) / (n *
\* (1 + c^2)) for x = c; its standard error and p-value are NaN (n = 1) or
\* some finite number.
OlsFits(xs, ys) ==
  IF ~(AllFinite(xs) /\ AllFinite(ys)) THEN {Fit(NaN, NaN, NaN, NaN)}
  ELSE
    LET x == Units(xs)
        y == Units(ys)
        n == Len(x)
        Sxx == Cross(x, x)
        Sxy == Cross(x, y)
        Syy == Cross(y, y)
        slope == Fin(RoundDiv(Sxy * Million, Sxx))
        r2s == IF Syy = 0 THEN R2NoVariation
               ELSE {Fin(RoundDiv(Sxy * Sxy * Million, Sxx * Syy))}
        res == Sxx * Syy - Sxy * Sxy
    IN  IF Sxx = 0
          THEN {Fit(Fin(RoundDiv(x[1] * SumSeq(y) * Million, n * (1 + x[1] * x[1]))),
                    b, b, r2) : b \in {NaN, Fin(Million)}, r2 \in r2s \cup {Fin(0)}}
        ELSE IF n = 2
          THEN \* no residual degrees of freedom: scale = ssr / 0
               {Fit(slope, NaN, NaN, r2) : r2 \in r2s}
                 \cup {Fit(slope, PInf, Fin(Million), r2) : r2 \in r2s}
        ELSE IF res = 0
          THEN \* a perfect fit: the standard error is 0 and t is 0/0 or inf,
               \* or a rounding residue leaves some finite p-value
               {Fit(slope, Fin(0), p, r2) :
                  p \in (IF Sxy = 0 THEN {NaN} ELSE {Fin(0)}) \cup PValueGrid,
                  r2 \in r2s}
        ELSE {Fit(slope, Fin(ISqrt((res * Million) \div ((n - 2) * Sxx * Sxx)) * 1000),
                  p, r2) : p \in PValueGrid, r2 \in r2s}

\* The fit raises numpy.linalg.LinAlgError ("SVD did not converge") on some
\* builds when the data hold NaN or infinity, and returns NaN on others.
OlsMayRaise(xs, ys) == ~(AllFinite(xs) /\ AllFinite(ys))

\* The fit is a function of its data on one installation: on a rerun over
\* the same rows it raises where it raised and returns what it returned.
RaisesAgain == run = 2 => (first.exc = "LinAlgError" /\ first.gi = gi)

ReturnsAgain == run = 2 => ~(first.exc = "LinAlgError" /\ first.gi = gi)

SameResultAgain(r) ==
  run = 2 => (Len(results) < Len(first.results) /\ r = first.results[Len(results) + 1])

\* One entry of linear_regression's result list.
ResultWithIntercept(pid, f, n) ==
  [id |-> pid, intercept |-> None, beta_Np |-> SanitizeN(f.slope),
   beta_SE |-> SanitizeN(f.bse), p_value |-> SanitizeN(f.p),
   R_squared |-> SanitizeN(f.r2), N |-> n]

Result(pid, f, n) ==
  [id |-> pid, beta_Np |-> SanitizeN(f.slope), beta_SE |-> SanitizeN(f.bse),
   p_value |-> SanitizeN(f.p), R_squared |-> SanitizeN(f.r2), N |-> n]

\* linear_regression's test before the fit:
\* if grp.empty or grp["seller_count"].nunique() < 2: continue
RegressionSkipsNever(g) == FALSE

RegressionSkips(g) == g = << >> \/ NUnique(Column(g, "seller_count")) < 2

\* One iteration of linear_regression's loop.
RegressGroup ==
  /\ pc = "loop"
  /\ script = RegressionIpNp
  /\ gi <= Len(GroupIds(df))
  /\ LET pid == GroupIds(df)[gi]
         g == GroupRows(df, pid)
         ys == [i \in 1..Len(g) |-> NpLog(g[i].iB)]
         xs == [i \in 1..Len(g) |-> NpLog(g[i].seller_count)]
     IN  IF RegressionSkips(g)
           THEN /\ gi' = gi + 1
                /\ UNCHANGED << fitted, results, pc, exc, exitCode >>
           ELSE /\ fitted' = fitted \cup {pid}
                /\ \/ /\ OlsMayRaise(xs, ys)
                      /\ RaisesAgain
                      /\ Uncaught("LinAlgError")
                      /\ UNCHANGED << gi, results >>
                   \/ \E f \in OlsFits(xs, ys) :
                        /\ ReturnsAgain
                        /\ SameResultAgain(Result(pid, f, Len(g)))
                        /\ results' = Append(results, Result(pid, f, Len(g)))
                        /\ gi' = gi + 1
                        /\ UNCHANGED << pc, exc, exitCode >>
  /\ UNCHANGED << inputVars, sideVars, connVars, outVars, jsonFile, data, outputDir,
                  nJsonReads, rows, df, printed >>

\* return results
RegressionDone ==
  /\ pc = "loop"
  /\ script = RegressionIpNp
  /\ gi > Len(GroupIds(df))
  /\ pc' = "merge"
  /\ UNCHANGED << inputVars, sideVars, connVars, loopVars, outVars, jsonFile, data,
                  outputDir, nJsonReads, rows, df, printed, exc, exitCode >>

\* results_by_id.get(id): the last result with that id, if there is one.
HasResult(res, id) == \E i \in DOMAIN res : res[i].id = id

ResultFor(res, id) ==
  res[CHOOSE i \in DOMAIN res : res[i].id = id /\ \A j \in DOMAIN res : res[j].id = id => j <= i]

\* The body of main()'s loop over data["products"] for one entry.
MergeEntryAlways(e, res) ==
  IF res # << >> THEN [e EXCEPT !.reg1 = Some(res[1])] ELSE e

MergeEntry(e, res) ==
  IF HasResult(res, The(e.id)) THEN [e EXCEPT !.reg1 = Some(ResultFor(res, The(e.id)))] ELSE e

\* The first entry without an "id", where product["id"] raises KeyError;
\* 0 if every entry has one.
FirstWithoutId(pl) ==
  IF \E i \in DOMAIN pl : ~Has(pl[i].id)
    THEN CHOOSE i \in DOMAIN pl : ~Has(pl[i].id) /\ \A j \in 1..(i - 1) : Has(pl[j].id)
    ELSE 0

\* The products list after the loop, or after the part of it that ran.
MergeProducts(pl, res) ==
  LET stop == FirstWithoutId(pl)
  IN  [i \in DOMAIN pl |->
         IF stop = 0 \/ i < stop THEN MergeEntry(pl[i], res) ELSE pl[i]]

\* results_by_id = {...}; for product in data["products"]: ...
MergeWritesThrough ==
  /\ pc = "merge"
  /\ IF ~Has(data["products"])
       THEN Uncaught("KeyError") /\ data' = data /\ jsonFile' = jsonFile
       ELSE LET pl == The(data["products"])
            IN  /\ data' = [data EXCEPT !["products"] = Some(MergeProducts(pl, results))]
                /\ jsonFile' = Some(data')
                /\ IF FirstWithoutId(pl) # 0
                     THEN Uncaught("KeyError")
                     ELSE pc' = "write" /\ UNCHANGED << exc, exitCode >>
  /\ UNCHANGED << inputVars, sideVars, connVars, loopVars, outVars, outputDir,
                  nJsonReads, rows, df, printed >>

Merge ==
  /\ pc = "merge"
  /\ IF ~Has(data["products"])
       THEN Uncaught("KeyError") /\ data' = data
       ELSE LET pl == The(data["products"])
            IN  /\ data' = [data EXCEPT !["products"] = Some(MergeProducts(pl, results))]
                /\ IF FirstWithoutId(pl) # 0
                     THEN Uncaught("KeyError")
                     ELSE pc' = "write" /\ UNCHANGED << exc, exitCode >>
  /\ UNCHANGED << inputVars, sideVars, connVars, loopVars, outVars, jsonFile, outputDir,
                  nJsonReads, rows, df, printed >>

\* with open(json_path, "w") as f: json.dump(data, f, ...); print("Hotovo.")
WriteJson ==
  /\ pc = "write"
  /\ jsonFile' = Some(data)
  /\ printed' = Append(printed, "Hotovo")
  /\ Exit(0)
  /\ UNCHANGED << inputVars, sideVars, connVars, loopVars, outVars, data, outputDir,
                  nJsonReads, rows, df, exc >>

\* sum.py after load_data_json: a_plus_b = data.get("a", 0) + data.get("b", 0),
\* then the document is written back.
GetOr(d, k, default) == IF Has(d[k]) THEN The(d[k]) ELSE default

SumAndWrite ==
  /\ pc = "loaded"
  /\ script = SumScript
  /\ data' = [data EXCEPT !["a_plus_b"] = Some(GetOr(data, "a", 0) + GetOr(data, "b", 0))]
  /\ jsonFile' = Some(data')
  /\ printed' = Append(printed, "Hotovo")
  /\ Exit(0)
  /\ UNCHANGED << inputVars, sideVars, connVars, loopVars, outVars, outputDir, nJsonReads,
                  rows, df, exc >>

\* ------------------------------------------------------------------ charts
Content(kind, legend, stats, nrows) ==
  [kind |-> kind, legend |-> legend, stats |-> stats, nrows |-> nrows,
   name |-> << >>]

\* truncate_product_name(name, max_length=35).
truncate_product_name(name) ==
  IF Len(name) <= max_length
    THEN name
    ELSE SubSeq(name, 1, max_length) \o << ".", ".", "." >>

\* The product name as the figure shows it: plot_cenovy_odstup_b and
\* histogram pass it through truncate_product_name in the caption; the
\* scatterplot scripts put product_name itself into the caption (lab 1) or
\* the title (lab 4).
ShownName(s, name) ==
  IF s \in {PlotCenovyOdstupB, Histogram} THEN truncate_product_name(name) ELSE name

Captioned(content, name) == [content EXCEPT !.name = name]

\* What the image of one group shows of the regression.
PlainImage(n) == Content("png", "none", FALSE, n)

OlsImage(xs, n) ==
  IF ParamsLen(xs) > 1
    THEN Content("png", "OLS line", TRUE, n)
    ELSE Content("png", "OLS not estimated", FALSE, n)

\* os.makedirs(output_dir, exist_ok=True), the first statement of
\* plot_for_each_product / save_histograms.
MakeDirsNoExistOk ==
  /\ pc = "makedirs"
  /\ IF ~Has(outputDir)
       THEN Uncaught("NameError") /\ dirs' = dirs
       ELSE IF The(outputDir) \in dirs
         THEN Uncaught("FileExistsError") /\ dirs' = dirs
         ELSE /\ dirs' = dirs \cup {The(outputDir)}
              /\ pc' = "loop"
              /\ UNCHANGED << exc, exitCode >>
  /\ UNCHANGED << inputVars, sideVars, connVars, loopVars, files, jsonFile, data,
                  outputDir, nJsonReads, rows, df, printed >>

MakeDirs ==
  /\ pc = "makedirs"
  /\ IF ~Has(outputDir)
       THEN Uncaught("NameError") /\ dirs' = dirs
       ELSE /\ dirs' = dirs \cup {The(outputDir)}
            /\ pc' = "loop"
            /\ UNCHANGED << exc, exitCode >>
  /\ UNCHANGED << inputVars, sideVars, connVars, loopVars, files, jsonFile, data,
                  outputDir, nJsonReads, rows, df, printed >>

\* The explanatory and the response column of the scripts that fit OLS on
\* the raw columns.
XColumn(s, g) == Column(g, IF s = Souladnost THEN "dB" ELSE "seller_count")
YColumn(s, g) == Column(g, IF s = Souladnost THEN "dA" ELSE "iB")

\* The test a chart loop makes before it draws a group (after `if grp.empty:
\* continue`, which no group of a groupby meets).
ChartSkipsNever(s, g) == FALSE

ChartSkipsLikeRegression(s, g) ==
  CASE s = Histogram -> AllNa(Column(g, "price"))
    [] s = ScatterplotSladenost -> AllNa(Column(g, "min_mode_ratio"))
    [] s \in {ScatterplotNpIb, Souladnost} -> NUnique(XColumn(s, g)) < 2
    [] OTHER -> FALSE

ChartSkips(s, g) ==
  CASE s = Histogram -> AllNa(Column(g, "price"))
    [] s = ScatterplotSladenost -> AllNa(Column(g, "min_mode_ratio"))
    [] OTHER -> FALSE

SaveFig(pid, content) ==
  files' = WriteFile(files, File(The(outputDir), PngName(pid),
                                 Captioned(content, ShownName(script, ProductName(pid)))))

\* One iteration of the loop of plot_for_each_product / save_histograms.
PlotGroup ==
  /\ pc = "loop"
  /\ script \in PerProductChartScripts
  /\ gi <= Len(GroupIds(df))
  /\ LET pid == GroupIds(df)[gi]
         g == GroupRows(df, pid)
     IN  IF ChartSkips(script, g)
           THEN /\ gi' = gi + 1
                /\ UNCHANGED << fitted, files, pc, exc, exitCode >>
         ELSE IF script \in OlsScripts
           THEN /\ fitted' = fitted \cup {pid}
                /\ \/ /\ OlsMayRaise(XColumn(script, g), YColumn(script, g))
                      /\ RaisesAgain
                      /\ Uncaught("LinAlgError")
                      /\ UNCHANGED << gi, files >>
                   \/ /\ ReturnsAgain
                      /\ SaveFig(pid, OlsImage(XColumn(script, g), Len(g)))
                      /\ gi' = gi + 1
                      /\ UNCHANGED << pc, exc, exitCode >>
         ELSE /\ SaveFig(pid, PlainImage(Len(g)))
              /\ gi' = gi + 1
              /\ UNCHANGED << fitted, pc, exc, exitCode >>
  /\ UNCHANGED << inputVars, sideVars, connVars, results, dirs, jsonFile, data, outputDir,
                  nJsonReads, rows, df, printed >>

\* The loop is over: print("Hotovo.") and main() returns.
ChartsDone ==
  /\ pc = "loop"
  /\ script \in PerProductChartScripts
  /\ gi > Len(GroupIds(df))
  /\ printed' = Append(printed, "Hotovo")
  /\ Exit(0)
  /\ UNCHANGED << inputVars, sideVars, connVars, loopVars, outVars, jsonFile, data,
                  outputDir, nJsonReads, rows, df, exc >>

\* plot_brand_index(df, output_path): one figure for all brands, saved as
\* work_dir/img/brand_index_sladeni.png after os.makedirs of its directory.
PlotBrand ==
  /\ pc = "plot_brand"
  /\ dirs' = dirs \cup {The(outputDir)}
  /\ files' = WriteFile(files, File(The(outputDir), << "brand_index_sladeni.png" >>,
                                    PlainImage(Len(df))))
  /\ printed' = Append(printed, "Hotovo")
  /\ Exit(0)
  /\ UNCHANGED << inputVars, sideVars, connVars, loopVars, jsonFile, data, outputDir,
                  nJsonReads, rows, df, exc >>

\* export_to_csv.py, inside its try blocks: out_path = Path(OUT_CSV) is
\* opened for writing, the header is written (from the first row's keys, or
\* from cur.description when there are no rows), then the rows.
WriteCsv ==
  /\ pc = "csv"
  /\ files' = WriteFile(files, File(Dir("cwd", ""), << "data.csv" >>,
                                    Content("csv", "header", FALSE, Len(rows))))
  /\ printed' = Append(printed, "OK: exported")
  /\ pc' = "close_cur"
  /\ UNCHANGED << inputVars, sideVars, connVars, loopVars, dirs, jsonFile, data,
                  outputDir, nJsonReads, rows, df, exc, exitCode >>

Next ==
  \/ CheckArgs
  \/ CheckJson
  \/ LoadJson
  \/ BuildSqlAndParams
  \/ SkipBuild
  \/ GetConnection
  \/ OpenCursor
  \/ Execute
  \/ FetchAll
  \/ CloseCursor
  \/ CloseConnection
  \/ MakeDataFrame
  \/ CheckEmpty
  \/ RegressGroup
  \/ RegressionDone
  \/ Merge
  \/ WriteJson
  \/ SumAndWrite
  \/ MakeDirs
  \/ PlotGroup
  \/ ChartsDone
  \/ PlotBrand
  \/ WriteCsv

Spec == Init /\ [][Next]_vars

\* ------------------------------------------------------------------ rerun
\* The inputs of the runs that are run twice.
RerunInputsFor(s) ==
  PipelineInputs(s)
    \cup (IF s \in DbScripts THEN DataInputs(s) ELSE {})
    \cup (IF s = RegressionIpNp
            THEN {inp \in RegDocInputs : Len(inp.db) <= MaxRows}
            ELSE {})
    \cup (IF s = SumScript THEN SumInputs ELSE {})

RerunInit ==
  /\ \E s \in Scripts : StartOn(s, RerunInputsFor(s))
  /\ SideIdle

\* The script is started again with the same argument, on the work_dir as
\* the first run left it and the same database.  The first process is gone,
\* and what it held with it.
Rerun ==
  /\ pc = "done"
  /\ run = 1
  /\ run' = 2
  /\ first' = [files |-> files, dirs |-> dirs, json |-> jsonFile,
               exitCode |-> exitCode, exc |-> exc, gi |-> gi, results |-> results]
  /\ json0' = jsonFile
  /\ pc' = "start"
  /\ data' = EmptyDoc
  /\ outputDir' = ModuleLevelOutputDir(script)
  /\ conn' = "none"
  /\ cur' = "none"
  /\ nConnect' = 0
  /\ nExecute' = 0
  /\ nJsonReads' = 0
  /\ rows' = << >>
  /\ df' = << >>
  /\ gi' = 1
  /\ fitted' = {}
  /\ results' = << >>
  /\ printed' = << >>
  /\ exc' = "none"
  /\ exitCode' = Running
  /\ UNCHANGED << script, argc, db, fault, jsonFile, files, dirs, ident, fname, oth, query >>

RerunNext == Next \/ Rerun

SpecRerun == RerunInit /\ [][RerunNext]_vars

\* ------------------------------------------------------- concurrent runs
\* Two processes on one work_dir: the first runs regression_iP_Np or sum,
\* the second runs sum.py.  Each statement of either is one step.
ConcurrentInit ==
  /\ \/ StartOn(RegressionIpNp, {inp \in RegDocInputs : Len(inp.db) <= MaxRows})
     \/ StartOn(SumScript, SumInputs)
  /\ ident = << >> /\ fname = Absent
  /\ run = 1 /\ first = NoFirst
  /\ oth = Other("start")
  /\ query = Absent

\* The first process has written data.json: json.dump is followed by
\* print("Hotovo") and the end of main.
MainWrote ==
  /\ script \in {RegressionIpNp, SumScript}
  /\ pc = "done" /\ exitCode = 0
  /\ printed # << >> /\ printed[Len(printed)] = "Hotovo"

\* sum.py of the second process: load_data_json(json_path, {}).
OtherLoad ==
  /\ oth.pc = "start"
  /\ Has(jsonFile)
  /\ oth' = [oth EXCEPT !.pc = "loaded",
                        !.data = load_data_json(The(jsonFile), Defaults(SumScript)),
                        !.mainWroteAtRead = MainWrote]
  /\ UNCHANGED << runVars, ident, fname, run, first, query >>

\* A write-back that would read the file again and amend what is there.
OtherSumAndWriteFresh ==
  /\ oth.pc = "loaded"
  /\ Has(jsonFile)
  /\ LET d == [The(jsonFile) EXCEPT
                 !["a_plus_b"] = Some(GetOr(The(jsonFile), "a", 0) + GetOr(The(jsonFile), "b", 0))]
     IN /\ jsonFile' = Some(d)
        /\ oth' = [oth EXCEPT !.pc = "done", !.data = d,
                              !.mainReadAtWrite = nJsonReads > 0,
                              !.mainWroteAtWrite = MainWrote,
                              !.fileAtWrite = jsonFile]
  /\ UNCHANGED << script, argc, json0, db, fault, pc, data, outputDir, conn, cur,
                  nConnect, nExecute, nJsonReads, rows, df, gi, fitted, results,
                  files, dirs, printed, exc, exitCode, ident, fname, run, first, query >>

\* sum.py of the second process: a_plus_b is set in the document it read,
\* and that document is written over data.json.
OtherSumAndWrite ==
  /\ oth.pc = "loaded"
  /\ LET d == [oth.data EXCEPT
                 !["a_plus_b"] = Some(GetOr(oth.data, "a", 0) + GetOr(oth.data, "b", 0))]
     IN /\ jsonFile' = Some(d)
        /\ oth' = [oth EXCEPT !.pc = "done", !.data = d,
                              !.mainReadAtWrite = nJsonReads > 0,
                              !.mainWroteAtWrite = MainWrote,
                              !.fileAtWrite = jsonFile]
  /\ UNCHANGED << script, argc, json0, db, fault, pc, data, outputDir, conn, cur,
                  nConnect, nExecute, nJsonReads, rows, df, gi, fitted, results,
                  files, dirs, printed, exc, exitCode, ident, fname, run, first, query >>

ConcurrentNext ==
  \/ CheckArgs
  \/ CheckJson
  \/ LoadJson
  \/ BuildSqlAndParams
  \/ GetConnection
  \/ OpenCursor
  \/ Execute
  \/ FetchAll
  \/ CloseCursor
  \/ CloseConnection
  \/ MakeDataFrame
  \/ CheckEmpty
  \/ RegressGroup
  \/ RegressionDone
  \/ Merge
  \/ WriteJson
  \/ SumAndWrite
  \/ OtherLoad
  \/ OtherSumAndWrite

SpecConcurrent == ConcurrentInit /\ [][ConcurrentNext]_vars

\* ------------------------------------------------------- query arguments
\* The pieces of a query text that matter to its parameters: clause keywords
\* and the conditions that hold a %s, in the order of the text.
\* The configuration key whose value a placeholder is meant for, "" for a
\* piece without a placeholder.  BETWEEN %s AND %s is two pieces.
Meant(piece) ==
  CASE piece = "basket_id = %s" -> "basketId"
    [] piece = "date >= %s" -> "dateFrom"
    [] piece = "date BETWEEN %s" -> "dateFrom"
    [] piece = "date <= %s" -> "dateTo"
    [] piece = "AND %s" -> "dateTo"
    [] OTHER -> ""

IsPlaceholder(piece) == Meant(piece) # ""

\* `'dateFrom' in data and data['dateFrom']`: the key is there and its value
\* is not the empty string.
Truthy(d, k) == Has(d[k]) /\ The(d[k]) # ""

\* " WHERE " + " AND ".join(conditions)
JoinAnd(conds) ==
  IF Len(conds) = 2 THEN << conds[1], "AND", conds[2] >> ELSE conds

\* The text handed to cur.execute.
SqlText(s, d) ==
  CASE s = PlotBrandIndex ->
         LET conds == (IF Truthy(d, "dateFrom") THEN << "date >= %s" >> ELSE << >>)
                        \o (IF Truthy(d, "dateTo") THEN << "date <= %s" >> ELSE << >>)
         IN  << "SELECT" >>
               \o (IF conds # << >> THEN << "WHERE" >> \o JoinAnd(conds) ELSE << >>)
               \o << "ORDER BY" >>
    [] s = Histogram ->
         << "SELECT", "JOIN", "date BETWEEN %s", "AND %s", "WHERE", "basket_id = %s" >>
    [] s = ExportToCsv ->
         << "SELECT", "WHERE", "basket_id = %s", "AND", "date BETWEEN %s", "AND %s" >>
    [] OTHER ->
         << "SELECT", "WHERE", "basket_id = %s", "AND", "date >= %s", "AND",
            "date <= %s", "ORDER BY" >>

\* The configuration keys whose values make the parameter tuple, in the
\* order the code puts them.
ParamKeysBasketFirst(s, d) == << "basketId", "dateFrom", "dateTo" >>

ParamKeys(s, d) ==
  CASE s = PlotBrandIndex ->
         (IF Truthy(d, "dateFrom") THEN << "dateFrom" >> ELSE << >>)
           \o (IF Truthy(d, "dateTo") THEN << "dateTo" >> ELSE << >>)
    [] s = Histogram -> << "dateFrom", "dateTo", "basketId" >>
    [] OTHER -> << "basketId", "dateFrom", "dateTo" >>

\* A parameter as the connector puts it into the text: the number, or the
\* string between quotes.
Literal(d, k) ==
  IF k = "basketId" THEN Str(The(d[k])) ELSE << "'", The(d[k]), "'" >>

\* data['...'] raises KeyError for a key that is not there.
ParamsRaise(s, d) == \E i \in DOMAIN ParamKeys(s, d) : ~Has(d[ParamKeys(s, d)[i]])

ExecuteArgs(s, d) ==
  [sql |-> SqlText(s, d),
   params |-> [i \in DOMAIN ParamKeys(s, d) |-> Literal(d, ParamKeys(s, d)[i])]]

\* The configurations: basketId, dateFrom and dateTo each absent or given,
\* the dates also empty.
QueryDocs ==
  {[EmptyDoc EXCEPT !["basketId"] = b, !["dateFrom"] = f, !["dateTo"] = t] :
     b \in {Absent, Some(1), Some(2)},
     f \in {Absent, Some(""), Some("2024-01-01"), Some("2024-02-01")},
     t \in {Absent, Some(""), Some("2024-01-31"), Some("2024-02-29")}}

SqlInit ==
  /\ \E s \in DbScripts :
       StartOn(s, {Input(1, Some(d), "none", << >>) : d \in QueryDocs})
  /\ SideIdle

\* The loaded configuration of the run.
Loaded == load_data_json(The(jsonFile), Defaults(script))

\* build_sql_and_params() and the call of cur.execute, short of the
\* database: the arguments are built unless a key is missing.
BuildQuery ==
  /\ query = Absent
  /\ ~ParamsRaise(script, Loaded)
  /\ query' = Some(ExecuteArgs(script, Loaded))
  /\ UNCHANGED << runVars, ident, fname, run, first, oth >>

SqlNext == BuildQuery

SpecSql == SqlInit /\ [][SqlNext]_vars

\* ------------------------------------------------------------ file names
\* The characters identifiers are made of here: a digit, a letter, the
\* space, the tab, and two of the characters sanitize_filename replaces.
IdChars == {"4", "a", " ", "\t", "/", ":"}

\* No script runs: only the file-name functions are applied.
NoRun ==
  /\ script = PlotCenovyOdstupB /\ argc = 1 /\ json0 = Absent /\ jsonFile = Absent
  /\ db = << >> /\ fault = "none"
  /\ ProcessStart /\ files = {} /\ dirs = {}

NamesInit ==
  /\ NoRun
  /\ ident \in SeqsUpTo(IdChars, MaxIdLen)
  /\ fname = Absent
  /\ run = 1 /\ first = NoFirst /\ oth = Other("off") /\ query = Absent

\* fname = f"{sanitize_filename(str(product_id))}.png"
RenderName ==
  /\ fname = Absent
  /\ fname' = Some(sanitize_filename(ident) \o << ".png" >>)
  /\ UNCHANGED << runVars, ident, run, first, oth, query >>

\* The rendered stem is taken as an identifier in turn.
RenderAgain ==
  /\ Has(fname)
  /\ ident # SubSeq(The(fname), 1, Len(The(fname)) - 1)
  /\ ident' = SubSeq(The(fname), 1, Len(The(fname)) - 1)
  /\ fname' = Absent
  /\ UNCHANGED << runVars, run, first, oth, query >>

NamesNext == RenderName \/ RenderAgain

SpecNames == NamesInit /\ [][NamesNext]_vars

\* ================================================================ properties
Done == pc = "done"

\* Nothing has been written: no file, no directory, data.json as it was.
NothingWritten == files = {} /\ dirs = {} /\ jsonFile = json0

\* The configuration holds every key the queries read.
ValidConfig == Has(json0) /\ ~MissingQueryKey(The(json0))

\* ------------------------------------------------------------------------ C1
\* C1: in every script, a run with one argument whose work_dir has no
\* data.json never reads a configuration, never opens a database connection
\* and never creates or changes a file or directory; it stops after the
\* existence check and ends with exit code 1.
C1_MissingJsonExits1 ==
  (argc = 1 /\ ~Has(json0)) =>
    /\ pc \in {"start", "args_ok", "done"}
    /\ nJsonReads = 0
    /\ nConnect = 0 /\ conn = "none" /\ cur = "none"
    /\ NothingWritten
    /\ (Done => exitCode = 1)

\* A run over a work_dir without data.json has ended.
C1_Witness == argc = 1 /\ ~Has(json0) /\ Done /\ exitCode = 1

\* ------------------------------------------------------------------------ C2
\* C2: in every script, a run whose number of command-line arguments is not
\* exactly one prints the missing-parameter message and ends with exit code
\* 1 straight from the argument check: data.json is never read, no database
\* connection is opened and nothing is written.
C2_BadArgCountExits1 ==
  (argc # 1) =>
    /\ pc \in {"start", "done"}
    /\ nJsonReads = 0
    /\ nConnect = 0 /\ conn = "none" /\ cur = "none"
    /\ NothingWritten
    /\ (Done => exitCode = 1 /\ printed = Append(Banner(script), ArgMessage))

\* A run with two arguments has ended, data.json being there to read.
C2_Witness == argc = 2 /\ Has(json0) /\ Done /\ exitCode = 1

\* ------------------------------------------------------------------------ C3
\* The run C3 is about: one argument, a valid configuration, a connector
\* that works, and a query that returns no row.
EmptyResultRun ==
  script \in DbScripts /\ argc = 1 /\ ValidConfig /\ fault = "none" /\ db = << >>

\* The header-only file export_to_csv.py leaves in the current directory.
HeaderOnlyCsv ==
  File(Dir("cwd", ""), << "data.csv" >>, Content("csv", "header", FALSE, 0))

C4_ClosedOnEveryExit ==
  (Done /\ fault \in {"none", "execute", "fetch"}) => (conn # "open" /\ cur # "open")

\* ------------------------------------------------------------------------ C5
\* The document main() loaded.
LoadedDoc == load_data_json(The(json0), Defaults(script))

\* regression_iP_Np has rewritten data.json and reported success.
Rewritten ==
  /\ script = RegressionIpNp /\ Done /\ exitCode = 0
  /\ printed # << >> /\ printed[Len(printed)] = "Hotovo"

\* The regression results for one product id.
ResultsOf(pid) == {r \in Range(results) : r.id = pid}

\* C5: after a successful run of regression_iP_Np the rewritten data.json
\* equals the loaded document but for the reg1 of the products whose id has
\* a regression result: every top-level key other than products is
\* unchanged, the products list has the same length and order, every other
\* field of every product is unchanged, a product with a result carries that
\* result as reg1, and a product without one is unchanged (a reg1 it had is
\* kept, none is added).
C5_RewriteKeepsTheRest ==
  Rewritten =>
    /\ Has(jsonFile) /\ Has(LoadedDoc["products"])
    /\ \A k \in Keys \ {"products"} : The(jsonFile)[k] = LoadedDoc[k]
    /\ Has(The(jsonFile)["products"])
    /\ LET old == The(LoadedDoc["products"])
           new == The(The(jsonFile)["products"])
       IN  /\ Len(new) = Len(old)
           /\ \A i \in DOMAIN old :
                /\ new[i].id = old[i].id
                /\ new[i].label = old[i].label
                /\ IF ResultsOf(The(old[i].id)) # {}
                     THEN new[i].reg1 \subseteq ResultsOf(The(old[i].id))
                          /\ Has(new[i].reg1)
                     ELSE new[i] = old[i]

\* A rewrite that gave one product a new reg1 and left to another, which has
\* no result, the reg1 it had.
C5_Witness ==
  /\ Rewritten
  /\ LET old == The(LoadedDoc["products"])
         new == The(The(jsonFile)["products"])
     IN  \E i, j \in DOMAIN old :
           /\ ResultsOf(The(old[i].id)) # {}
           /\ old[i].reg1 = Some(OldReg1) /\ new[i].reg1 # old[i].reg1
           /\ ResultsOf(The(old[j].id)) = {}
           /\ new[j].reg1 = Some(OldReg1)

\* ------------------------------------------------------------------------ C6
\* The distinct seller counts the database holds for one product (NULL is
\* no value).
SellerCounts(pid) ==
  {db[i].seller_count :
     i \in {j \in DOMAIN db : db[j].product_id = pid /\ db[j].seller_count # NULL}}

FewSellerCounts(pid) == Cardinality(SellerCounts(pid)) < 2

\* C6: in regression_iP_Np a product whose seller count takes fewer than two
\* distinct values gets no regression result: linear_regression returns no
\* entry with its id, and in data.json the product is left as it was, no
\* reg1 injected.
C6_FewSellerCountsNoResult ==
  script = RegressionIpNp =>
    \A pid \in Pids :
      FewSellerCounts(pid) =>
        /\ ResultsOf(pid) = {}
        /\ (Has(jsonFile) /\ Has(The(jsonFile)["products"])) =>
             LET old == The(LoadedDoc["products"])
                 new == The(The(jsonFile)["products"])
             IN  \A i \in DOMAIN new : new[i].id = Some(pid) => new[i] = old[i]

\* A rewrite where a product with rows but one seller count got no reg1,
\* while another product got a result.
C6_Witness ==
  /\ Rewritten
  /\ results # << >>
  /\ \E pid \in Pids :
       /\ FewSellerCounts(pid)
       /\ \E i \in DOMAIN db : db[i].product_id = pid
       /\ \E i \in DOMAIN The(The(jsonFile)["products"]) :
            /\ The(The(jsonFile)["products"])[i].id = Some(pid)
            /\ The(The(jsonFile)["products"])[i].reg1 = Absent

\* ------------------------------------------------------------------------ C7
\* The scripts that draw a scatter chart with an OLS line per product.
ScatterOlsScripts == {ScatterplotNpIb, Souladnost}

\* The product's group in the DataFrame has fewer than two distinct values
\* of the explanatory variable.
FewDistinctX(pid) ==
  Cardinality({v \in Range(XColumn(script, GroupRows(df, pid))) : NotNa(v)}) < 2

HasImage(pid) == \E f \in files : f.name = PngName(pid)

ConstantResponse(pid) ==
  LET ys == YColumn(script, GroupRows(df, pid))
  IN  /\ ys # << >>
      /\ \A i \in DOMAIN ys : IsFinite(ys[i]) /\ ys[i].v > 0 /\ ys[i] = ys[1]

\* The explanatory values of the product's group are all positive numbers.
PositiveX(pid) ==
  LET xs == XColumn(script, GroupRows(df, pid))
  IN  \A i \in DOMAIN xs : IsFinite(xs[i]) /\ xs[i].v > 0

\* The explanatory values of the product's group are one repeated number
\* other than zero.
OneNonZeroX(pid) ==
  LET xs == XColumn(script, GroupRows(df, pid))
  IN  /\ xs # << >>
      /\ \A i \in DOMAIN xs : IsFinite(xs[i]) /\ xs[i].v # 0 /\ xs[i] = xs[1]

FloatFields == {"beta_Np", "beta_SE", "p_value", "R_squared"}

Rounded4OrNull(x) == x = None \/ (IsFinite(x) /\ x.v % 100 = 0)

\* The reg1 objects of the data.json on disk that this run's regression
\* produced.
WrittenResults ==
  IF Has(jsonFile) /\ Has(The(jsonFile)["products"])
    THEN {r \in UNION {e.reg1 : e \in Range(The(The(jsonFile)["products"]))} :
            r \in Range(results)}
    ELSE {}

\* C9: every float field (beta_Np, beta_SE, p_value, R_squared) of every
\* regression result regression_iP_Np computes, and of every one it has
\* written into data.json, is null or a finite value rounded to 4 decimal
\* places; NaN and +-Infinity are never written.
C9_FloatsNullOrRounded ==
  script = RegressionIpNp =>
    \A r \in Range(results) \cup WrittenResults :
      \A c \in FloatFields : Rounded4OrNull(r[c])

\* data.json holds a result whose p-value was rounded (0.123456 to 0.1235).
C9_Witness ==
  /\ Rewritten
  /\ \E r \in WrittenResults : r.p_value = Fin(123500)

\* ----------------------------------------------------------------------- C10
\* numerator / denominator, in millionths.
Quotient(num, den) == Fin(RoundDiv(num * Million, den))

\* The ratio columns of row i of the query's result, each with the cells it
\* is computed from: << ratio, numerator, denominator >>.
Ratios(i) ==
  CASE script = ScatterplotSladenost /\ i \in DOMAIN df ->
         {<< df[i].min_mode_ratio, db[i].min_price, db[i].mode_price >>}
    [] script = PlotCenovyOdstupB /\ i \in DOMAIN df ->
         {<< df[i].dB, db[i].min_price, db[i].mode_price >>}
    [] script = Souladnost /\ i \in DOMAIN df ->
         {<< df[i].dB, db[i].min_price, db[i].mode_price >>,
          << df[i].dA, db[i].min_price, db[i].avg_price >>}
    [] OTHER -> {}

C11_OutputsUnderWorkDir ==
  /\ \A f \in files : f.root = "work_dir"
  /\ \A d \in dirs : d.root = "work_dir"

\* ----------------------------------------------------------------------- C12
\* The product ids of the query's result: one group each.
DbPids == {db[i].product_id : i \in DOMAIN db}

ImagesOf(pid) == {f \in files : f.name = PngName(pid)}

\* A chart run over a non-empty result has ended with success.
ChartRunDone ==
  script \in PerProductChartScripts /\ Done /\ exitCode = 0 /\ db # << >>

\* The group has a value to draw: a price that is not NULL (histogram), a
\* ratio that could be computed (scatterplot_sladenost_cenovy_odstup_b).
\* The other chart scripts draw every group.
HasValueToDraw(pid) ==
  CASE script = Histogram ->
         \E i \in DOMAIN db : db[i].product_id = pid /\ db[i].price # NULL
    [] script = ScatterplotSladenost ->
         \E i \in DOMAIN db :
           /\ db[i].product_id = pid
           /\ db[i].min_price # NULL /\ db[i].mode_price # NULL /\ db[i].mode_price # 0
    [] OTHER -> TRUE

Separators == UnsafeChars \cup Whitespace

\* The words of a string: its maximal runs of characters that are neither
\* unsafe nor whitespace.
RECURSIVE Words(_, _)
Words(s, w) ==
  IF s = << >> THEN (IF w = << >> THEN << >> ELSE << w >>)
  ELSE IF Head(s) \in Separators
    THEN (IF w = << >> THEN << >> ELSE << w >>) \o Words(Tail(s), << >>)
    ELSE Words(Tail(s), Append(w, Head(s)))

\* The words joined by single spaces.
RECURSIVE JoinWords(_)
JoinWords(ws) ==
  IF ws = << >> THEN << >>
  ELSE IF Len(ws) = 1 THEN ws[1]
  ELSE ws[1] \o << " " >> \o JoinWords(Tail(ws))

\* C13: the rendered file name is a function of the identifier's string
\* only: the string with every run of \ / : * ? " < > | and every run of
\* whitespace made one space and the ends stripped (the words of the
\* identifier joined by single spaces), followed by .png.  The stem holds
\* none of those characters, no whitespace but single inner spaces, and
\* sanitizing it again changes nothing.
C13_FileNameFromIdentifier ==
  Has(fname) =>
    LET out == The(fname)
        stem == SubSeq(out, 1, Len(out) - 1)
    IN  /\ out[Len(out)] = ".png"
        /\ stem = JoinWords(Words(ident, << >>))
        /\ \A i \in DOMAIN stem : stem[i] \notin UnsafeChars \cup {"\t", "\n"}
        /\ \A i \in 1..(Len(stem) - 1) : ~(stem[i] = " " /\ stem[i + 1] = " ")
        /\ stem # << >> => (stem[1] # " " /\ stem[Len(stem)] # " ")
        /\ sanitize_filename(stem) = stem

\* An identifier with an unsafe character next to a space, and one with
\* outer whitespace, have been rendered.
C13_Witness ==
  /\ Has(fname)
  /\ \/ ident = << "4", "/", " ", "a" >> /\ The(fname) = << "4", " ", "a", ".png" >>
     \/ ident = << " ", "4", ":", "\t" >> /\ The(fname) = << "4", ".png" >>

\* ----------------------------------------------------------------------- C14
\* C14: rerunning a script with the same work_dir, configuration and
\* database content is idempotent: when the second run has ended, the
\* output files (paths and contents), the directories and data.json are
\* what the first run left, and the second run ends as the first did: an
\* existing output directory is not an error, files are overwritten,
\* nothing accumulates.
C14_RerunIdempotent ==
  (run = 2 /\ Done) =>
    /\ files = first.files
    /\ dirs = first.dirs
    /\ jsonFile = first.json
    /\ exitCode = first.exitCode

\* A second run of a chart script has overwritten the first run's images,
\* or a second run of regression_iP_Np has rewritten a data.json that
\* already held its reg1.
C14_Witness ==
  /\ run = 2 /\ Done /\ exitCode = 0
  /\ \/ script \in PerProductChartScripts /\ files # {} /\ dirs # {}
     \/ Rewritten /\ results # << >> /\ first.json # Absent /\ jsonFile # Absent

\* ----------------------------------------------------------------------- C15
\* Both processes have written data.json, and each read it before either
\* wrote it.
BothReadThenBothWrote ==
  /\ oth.pc = "done" /\ MainWrote
  /\ ~oth.mainWroteAtRead
  /\ oth.mainReadAtWrite

\* The document of the process that wrote first.
FirstWritten == IF oth.mainWroteAtWrite THEN The(oth.fileAtWrite) ELSE oth.data

\* The keys the first writer changed in the document both had read.
FirstAmendment == {k \in Keys : FirstWritten[k] # The(json0)[k]}

\* The final data.json holds, under every key the first writer amended, what
\* was there before either run.
FirstAmendmentLost ==
  \A k \in FirstAmendment : The(jsonFile)[k] = The(json0)[k]

\* C15 as stated: whichever two runs they are (regression_iP_Np and sum, or
\* sum twice), once both have read before either wrote and both have
\* written, the first writer's amendment is missing from data.json.
C15_AsStated ==
  (BothReadThenBothWrote /\ FirstAmendment # {}) => FirstAmendmentLost

\* C15: the read-modify-write of data.json is not atomic.  With a run of
\* regression_iP_Np and a run of sum on one work_dir, once both have read
\* the document before either wrote and both have written, the final
\* data.json is the last writer's document: what the first writer amended
\* (reg1 of the products, or a_plus_b) is as it was before either run.
\* Two runs of sum that read the same document write the same a_plus_b, so
\* there the first writer's amendment is still in the file.
C15_LostUpdateAcrossScripts ==
  (BothReadThenBothWrote /\ script # SumScript) => FirstAmendmentLost

\* The lost update in both orders: regression_iP_Np wrote reg1 first and sum
\* overwrote it, or sum wrote a_plus_b first and regression_iP_Np overwrote it.
C15_Witness ==
  /\ BothReadThenBothWrote /\ script = RegressionIpNp
  /\ FirstAmendment # {}
  /\ FirstAmendmentLost
  /\ jsonFile # Some(FirstWritten)

\* ----------------------------------------------------------------------- C16
\* A run of regression_iP_Np on a configuration that has basketId, dateFrom
\* and dateTo but no products key, over a result set that is not empty.
NoProductsRun ==
  /\ script = RegressionIpNp /\ argc = 1 /\ fault = "none"
  /\ ValidConfig /\ ~Has(The(json0)["products"])
  /\ db # << >>

\* C16: products is optional: a run of regression_iP_Np on a configuration
\* with basketId, dateFrom and dateTo but without the products key, whose
\* query returns rows, raises nothing and exits with status 0.
\* (A run whose fit raised in the statistics library is left aside.)
C16_NoProductsExits0 ==
  (NoProductsRun /\ Done /\ exc # "LinAlgError") => (exc = "none" /\ exitCode = 0)

\* ----------------------------------------------------------------------- C17
\* The product whose image a file is.
ImagePids(f) == {pid \in Pids : f.name = PngName(pid)}

\* The images of a per-product chart script.
ProductImages ==
  IF script \in PerProductChartScripts THEN {f \in files : f.content.kind = "png"} ELSE {}

\* C17: in every per-product chart script the figure shows the product name
\* truncated to 35 characters: a name of at most 35 characters unchanged, a
\* longer one as its first 35 characters and an ellipsis, so that the name
\* shown is never longer than 38 characters.
C17_NameTruncatedInEveryChart ==
  \A f \in ProductImages :
    /\ Len(f.content.name) <= max_length + 3
    /\ \A pid \in ImagePids(f) :
         f.content.name =
           IF Len(ProductName(pid)) <= max_length
             THEN ProductName(pid)
             ELSE SubSeq(ProductName(pid), 1, max_length) \o << ".", ".", "." >>

\* ----------------------------------------------------------------------- C18
\* C18 as stated: every regression result carries an intercept next to the
\* slope, the standard errors, the p-value and R squared.
C18_AsStated ==
  \A i \in 1..Len(results) :
    {"intercept", "beta_Np", "beta_SE", "p_value", "R_squared"} \subseteq DOMAIN results[i]

\* C18: every regression result that regression_iP_Np emits for a product
\* carries the product id, the slope (beta_Np), the standard error of the
\* slope (beta_SE), its p-value, R squared and the number of rows N, and
\* nothing else: no intercept and no standard error of the intercept.
C18_ResultFields ==
  \A i \in 1..Len(results) :
    DOMAIN results[i] = {"id", "beta_Np", "beta_SE", "p_value", "R_squared", "N"}

\* A result has been emitted and merged into the rewritten data.json.
C18_Witness ==
  /\ Rewritten /\ results # << >>
  /\ \E e \in Range(The(The(jsonFile)["products"])) :
       Has(e.reg1) /\ The(e.reg1) \in Range(results)

\* ----------------------------------------------------------------------- C19
\* C19: regression_iP_Np opens data.json for writing only as the last step
\* of a run: until a run has got through json.dump, and so in every run that
\* failed or returned before it (database error, empty result, missing
\* products key, a product entry without id), data.json is what it was when
\* the run started.
C19_UntouchedBeforeLastStep ==
  (script = RegressionIpNp /\ ~Rewritten) => jsonFile = json0

\* A run that had merged one result into the document in memory when a
\* product entry without id raised KeyError: data.json is as it was.
C19_Witness ==
  /\ script = RegressionIpNp /\ Done /\ exc = "KeyError"
  /\ Has(json0) /\ Has(The(json0)["products"])
  /\ data["products"] # The(json0)["products"]
  /\ jsonFile = json0

\* ----------------------------------------------------------------------- C20
\* C20: in the histogram script, on every path through main that reaches
\* save_histograms (its os.makedirs and its loop), the global OUTPUT_DIR has
\* already been assigned to work_dir/img/histogram, and no run of the script
\* ends on a read of the unassigned name.
C20_OutputDirAssignedBeforeUse ==
  script = Histogram =>
    /\ pc \in {"makedirs", "loop"} => outputDir = Some(Dir("work_dir", "img/histogram"))
    /\ exc # "NameError"

\* save_histograms has created the directory and saved a histogram in it.
C20_Witness ==
  /\ script = Histogram /\ pc = "loop"
  /\ dirs = {Dir("work_dir", "img/histogram")}
  /\ \E f \in files : f.root = "work_dir" /\ f.dir = "img/histogram"

Placeholders == SelectSeq(The(query).sql, IsPlaceholder)

OwnFrame(pid) ==
  DataFrame(script, QueryResult(script, SelectSeq(db, LAMBDA r : r.product_id = pid)))

\* The regression results the rows of one product alone allow.
OwnResults(pid) ==
  LET g == OwnFrame(pid)
      ys == [i \in 1..Len(g) |-> NpLog(g[i].iB)]
      xs == [i \in 1..Len(g) |-> NpLog(g[i].seller_count)]
  IN  IF RegressionSkips(g) THEN {} ELSE {Result(pid, f, Len(g)) : f \in OlsFits(xs, ys)}

\* What the image of one product shows, from the rows of that product alone.
OwnImage(pid) ==
  LET g == OwnFrame(pid)
  IN  Captioned(IF script \in OlsScripts
                  THEN OlsImage(XColumn(script, g), Len(g))
                  ELSE PlainImage(Len(g)),
                ShownName(script, ProductName(pid)))

=============================================================================
